---- MODULE Spec2Model ----
(***************************************************************************)
(* A model of tm_polygon.h: the ear-clipping triangulator and the          *)
(* Greiner-Hormann clipper (transform, find intersections, mark, emit).    *)
(*                                                                         *)
(* Coordinates are integers.  The triangulator's vertices lie on a small   *)
(* grid, where every float product and sum of the source is exact.         *)
(* Arrays are functions over 0..n-1, as in C.                              *)
(***************************************************************************)
EXTENDS Integers, Sequences, FiniteSets, TLC

\* ------------------------------------------------------------------ bounds
\* the triangulator's grid: x in 0..MaxX, y in 0..MaxY, loops of up to MaxN vertices
MaxX == 2
MaxY == 1
MaxN == 4
\* the clipper's lattice: corners of boxes with coordinates in 0..MaxCoord
MaxCoord == 2
\* spare ClipVertex entries a caller passes beyond the polygon's own
MaxSpare == 1
MaxMarks == 1
MaxPolygons == 2
MaxPool == 3

\* ------------------------------------------------------- program constants
\* TMPO_CLOCKWISE_TRIANGLES
TMPO_CLOCKWISE_TRIANGLES == 1
\* tmpo_index is an unsigned short
IndexBits == 16
IndexMod == 2 ^ IndexBits
\* positions of the clipper are kept in units of 0.0001f, the factor of the push
Scale == 10000
\* 0.00001f as a ratio: alpha <= 0.00001f, alpha >= 0.99999f
AlphaEpsInv == 100000
\* 0.000001f in squared units of the positions
CrossEps == 100
\* float alpha: 24 bits of mantissa
AlphaBits == 24
AlphaOne == 2 ^ AlphaBits

VARIABLES
    pc,      \* position of the running call
    tin,     \* arguments of triangulatePolygonEarClipping
    tri,     \* its locals, its scratch ring and its output
    hist,    \* bookkeeping of the run: rejected tests in a row, why the loop ended
    cin,     \* the two vertex arrays and slab sizes passed to clipPolyTransformData
    a,       \* ClipVertices a
    b,       \* ClipVertices b
    fi,      \* locals of clipPolyFindIntersections
    mk,      \* the direction pairs clipPolyMarkEntryExitPoints was called with
    em,      \* arguments and locals of clipPolyEmitClippedPolygons
    out,     \* the polygons array, the vertex pool and the result it returns
    ori      \* the loop isPolygonClockwise is called on, and what it returned

vars == <<pc, tin, tri, hist, cin, a, b, fi, mk, em, out, ori>>
emitVars == <<mk, em, out>>
clipVars == <<cin, a, b, fi, emitVars>>

\* ------------------------------------------------------------------ vectors
Vec(px, py) == [x |-> px, y |-> py]

GridPoints == {Vec(px, py) : px \in 0..MaxX, py \in 0..MaxY}

\* ------------------------------------------------------------ orientation
RECURSIVE ShoelaceFrom(_, _, _, _)
ShoelaceFrom(vs, n, i, last) ==
    IF i >= n THEN 0
    ELSE vs[last].x * vs[i].y - vs[last].y * vs[i].x + ShoelaceFrom(vs, n, i + 1, i)

\* the sum without the edge from the last vertex to the first
isPolygonClockwise_Mutant(vs, n) ==
    IF ShoelaceFrom(vs, n, 1, 0) >= 0 THEN 1 ELSE 0

\* isPolygonClockwise: sum >= 0 (count - 1 wraps when count = 0, the loop does not run)
isPolygonClockwise(vs, n) ==
    IF ShoelaceFrom(vs, n, 0, n - 1) >= 0 THEN 1 ELSE 0

isTriangleClockwise(va, vb, vc) ==
    LET bx == vb.x - va.x
        by == vb.y - va.y
        cx == vc.x - va.x
        cy == vc.y - va.y
        cross == bx * cy - by * cx
    IN  IF cross >= 0 THEN 1 ELSE 0

\* pointInsideTriangle.  invDenom = 1.0f / 0 is +inf when the triangle is degenerate:
\* r and s are then +-inf or NaN, and r >= 0 && s >= 0 && r + s <= 1 is false.
\* Otherwise the denominator is positive and r, s have the signs of their numerators.
pointInsideTriangle(va, vb, vc, v) ==
    LET bx == vb.x - va.x
        by == vb.y - va.y
        cx == vc.x - va.x
        cy == vc.y - va.y
        vx == v.x - va.x
        vy == v.y - va.y
        bc == bx * cx + by * cy
        vc2 == vx * cx + vy * cy
        vb2 == vx * bx + vy * by
        cc == cx * cx + cy * cy
        bb == bx * bx + by * by
        denom == bb * cc - bc * bc
        rNum == cc * vb2 - bc * vc2
        sNum == bb * vc2 - bc * vb2
    IN  /\ denom # 0
        /\ rNum >= 0
        /\ sNum >= 0
        /\ rNum + sNum <= denom

\* isTriangleEar: the loop runs over every vertex of the input, not over the ring
isTriangleEar(ia, ib, ic, vs, n, cw) ==
    /\ isTriangleClockwise(vs[ia], vs[ib], vs[ic]) = cw
    /\ \A i \in 0..(n - 1) :
          (i = ia \/ i = ib \/ i = ic) \/ ~pointInsideTriangle(vs[ia], vs[ib], vs[ic], vs[i])

\* ------------------------------------------------------------ triangulator
Min(p, q) == IF p < q THEN p ELSE q

NoTri == [size |-> 0, queryList |-> <<>>, indicesCount |-> 0, out |-> <<>>,
          a |-> 0, b |-> 0, c |-> 0, current |-> 0, iterationCount |-> 0]

NoHist == [rejects |-> 0, iters |-> 0, exit |-> "none"]

NoRing == [data |-> <<>>, originalSize |-> 0, size |-> 0, capacity |-> 0]
NoCin == [aVertices |-> <<>>, aCount |-> 0, aMax |-> 0,
          bVertices |-> <<>>, bCount |-> 0, bMax |-> 0]
NoFi == [i |-> 0, j |-> 0, aPrevIndex |-> 0, bPrevIndex |-> 0]
NoTin == [vertices |-> <<>>, count |-> 0, clockwise |-> 0, queryCount |-> 0,
          begin |-> 0, maxIndices |-> 0]
NoEm == [maxPolygons |-> 0, maxCount |-> 0, i |-> 0, ring |-> "a", currentPoly |-> 0,
         polyCount |-> 0, put |-> 0, size |-> 0, hasIntersections |-> FALSE,
         start |-> 0, startRing |-> "a", follow |-> "none"]
NoOri == [vertices |-> <<>>, count |-> 0, flags |-> <<>>]
NoOut == [polygons |-> <<>>, vertices |-> <<>>, result |-> [polygons |-> 0, vertices |-> 0]]
EmitIdle == mk = <<>> /\ em = NoEm /\ out = NoOut
ClipIdle == cin = NoCin /\ a = NoRing /\ b = NoRing /\ fi = NoFi /\ EmitIdle

\* the sizes of the caller's index array: none, one index short of a full
\* triangulation of MaxN vertices, and all of it
OutSizes == {0, 3 * (MaxN - 2) - 1, 3 * (MaxN - 2)}

InitTri ==
    /\ pc = "tri_start"
    /\ \E n \in 0..MaxN :
       \E vs \in [0..(n - 1) -> GridPoints] :
       \E cw \in {0, 1} :
       \E qc \in {n, MaxN - 1} :
       \E bg \in {0, IndexMod - 1} :
       \E mi \in OutSizes :
          tin = [vertices |-> vs, count |-> n, clockwise |-> cw, queryCount |-> qc,
                 begin |-> bg, maxIndices |-> mi]
    /\ tri = NoTri
    /\ hist = NoHist
    /\ ClipIdle
    /\ ori = NoOri

\* TMPO_ASSERT( queryCount >= count ); TMPO_ASSERT( maxIndices );
TriPrecondition == tin.queryCount >= tin.count /\ tin.maxIndices # 0

\* lines 316-338: the asserts, the early return, the identity ring
triangulateEnter ==
    /\ pc = "tri_start"
    /\ IF tin.count < 3
       THEN /\ pc' = "tri_done"
            /\ tri' = NoTri
            /\ hist' = [hist EXCEPT !.exit = "small"]
       ELSE LET sz == Min(tin.count, tin.queryCount)
            IN  /\ tri' = [size |-> sz,
                           queryList |-> [i \in 0..(sz - 1) |-> i],
                           indicesCount |-> 0, out |-> <<>>,
                           a |-> 0, b |-> 1, c |-> 2, current |-> 2,
                           iterationCount |-> 0]
                /\ pc' = IF sz > 2 THEN "tri_loop" ELSE "tri_done"
                /\ hist' = [hist EXCEPT !.exit = IF sz > 2 THEN "none" ELSE "complete"]
    /\ UNCHANGED <<tin, ori, clipVars>>

\* a failed assert ends the program in a build that keeps the asserts
triangulateAssert ==
    /\ pc = "tri_start"
    /\ ~TriPrecondition
    /\ pc' = "tri_aborted"
    /\ UNCHANGED <<tin, ori, tri, hist, clipVars>>

EarAtTriple ==
    isTriangleEar(tri.queryList[tri.a], tri.queryList[tri.b], tri.queryList[tri.c],
                  tin.vertices, tin.count, tin.clockwise)

\* the three indices of one triangle, as stored into tmpo_index out[]
EmittedTriangle ==
    LET ra == (tri.queryList[tri.a] + tin.begin) % IndexMod
        rb == (tri.queryList[tri.b] + tin.begin) % IndexMod
        rc == (tri.queryList[tri.c] + tin.begin) % IndexMod
    IN  IF tin.clockwise = TMPO_CLOCKWISE_TRIANGLES
        THEN <<ra, rb, rc>>
        ELSE <<ra, rc, rb>>

\* TMPO_MEMMOVE( queryList + b, queryList + b + 1, ( size - b ) * sizeof( tmpo_index ) )
\* with size already decremented; the ring's last slot keeps its old value
RemoveAt(ql, at, newSize) ==
    [i \in DOMAIN ql |-> IF i >= at /\ i < newSize THEN ql[i + 1] ELSE ql[i]]

\* the rewind without the wrap of lines 361-363
RewindTriple_Mutant(oldA, newSize) ==
    [current |-> oldA,
     a |-> IF oldA >= 2 THEN oldA - 2 ELSE newSize - (2 - oldA),
     b |-> IF oldA >= 1 THEN oldA - 1 ELSE newSize - (1 - oldA),
     c |-> oldA]

\* lines 360-376: the triple after a removal
RewindTriple(oldA, newSize) ==
    LET cur == IF oldA >= newSize THEN oldA - newSize ELSE oldA
    IN  [current |-> cur,
         a |-> IF cur >= 2 THEN cur - 2 ELSE newSize - (2 - cur),
         b |-> IF cur >= 1 THEN cur - 1 ELSE newSize - (1 - cur),
         c |-> cur]

\* the guard written as indicesCount >= maxIndices
SpaceLeft_Mutant == tri.indicesCount < tin.maxIndices

\* lines 342-345: the space guard
SpaceLeft == tri.indicesCount + 3 <= tin.maxIndices

\* lines 340-376: the ear branch with room for the triangle
triangulateEar ==
    /\ pc = "tri_loop"
    /\ tri.size > 2
    /\ EarAtTriple
    /\ SpaceLeft
    /\ LET newSize == tri.size - 1
           t == RewindTriple(tri.a, newSize)
       IN  /\ tri' = [tri EXCEPT !.out = tri.out \o EmittedTriangle,
                                 !.indicesCount = tri.indicesCount + 3,
                                 !.size = newSize,
                                 !.iterationCount = 0,
                                 !.queryList = RemoveAt(tri.queryList, tri.b, newSize),
                                 !.current = t.current,
                                 !.a = t.a, !.b = t.b, !.c = t.c]
           /\ pc' = IF newSize > 2 THEN "tri_loop" ELSE "tri_done"
           /\ hist' = [rejects |-> 0, iters |-> hist.iters + 1,
                       exit |-> IF newSize > 2 THEN "none" ELSE "complete"]
    /\ UNCHANGED <<tin, ori, clipVars>>

\* lines 342-345: an ear with no room left: TMPO_ASSERT( 0 ) and break
triangulateOutOfSpace ==
    /\ pc = "tri_loop"
    /\ tri.size > 2
    /\ EarAtTriple
    /\ ~SpaceLeft
    /\ pc' \in {"tri_done", "tri_aborted"}
    /\ hist' = [hist EXCEPT !.iters = hist.iters + 1, !.exit = "space"]
    /\ UNCHANGED <<tin, ori, tri, clipVars>>

\* the guard one attempt late
GuardFires_Mutant == tri.iterationCount > 2 * tri.size + 1

\* lines 388-390: the liveness guard, read after the triple has moved on
GuardFires == tri.iterationCount > 2 * tri.size

\* lines 377-392: the rejected test
triangulateReject ==
    /\ pc = "tri_loop"
    /\ tri.size > 2
    /\ ~EarAtTriple
    /\ LET cur1 == tri.current + 1
           wrap == cur1 >= tri.size
       IN  tri' = [tri EXCEPT !.a = IF wrap THEN tri.size - 2 ELSE tri.b,
                              !.b = IF wrap THEN tri.size - 1 ELSE tri.current,
                              !.c = IF wrap THEN 0 ELSE cur1,
                              !.current = IF wrap THEN 0 ELSE cur1,
                              !.iterationCount =
                                  IF GuardFires THEN tri.iterationCount
                                  ELSE tri.iterationCount + 1]
    /\ pc' = IF GuardFires THEN "tri_done" ELSE "tri_loop"
    /\ hist' = [rejects |-> hist.rejects + 1, iters |-> hist.iters + 1,
                exit |-> IF GuardFires THEN "guard" ELSE "none"]
    /\ UNCHANGED <<tin, ori, clipVars>>

NextTri ==
    \/ triangulateEnter
    \/ triangulateAssert
    \/ triangulateEar
    \/ triangulateOutOfSpace
    \/ triangulateReject

SpecTri == InitTri /\ [][NextTri]_vars

\* a running call takes its next step
SpecTriFair == SpecTri /\ WF_vars(NextTri)

\* ------------------------------------------------- orientation, the calls
\* the loops isPolygonClockwise is called on: up to MaxN grid points
InitOrient ==
    /\ pc = "ori_start"
    /\ \E n \in 0..MaxN :
       \E vs \in [0..(n - 1) -> GridPoints] :
          ori = [vertices |-> vs, count |-> n, flags |-> <<>>]
    /\ tin = NoTin /\ tri = NoTri /\ hist = NoHist /\ ClipIdle

\* the same vertices, last to first
Reversed(vs, n) == [i \in 0..(n - 1) |-> vs[n - 1 - i]]

\* isPolygonClockwise( vertices, count )
orientLoop ==
    /\ pc = "ori_start"
    /\ ori' = [ori EXCEPT !.flags = Append(@, isPolygonClockwise(ori.vertices, ori.count))]
    /\ pc' = "ori_called"
    /\ UNCHANGED <<tin, tri, hist, clipVars>>

\* and the call on the reversed loop
orientReversed ==
    /\ pc = "ori_called"
    /\ ori' = [ori EXCEPT !.flags =
                  Append(@, isPolygonClockwise(Reversed(ori.vertices, ori.count), ori.count))]
    /\ pc' = "ori_done"
    /\ UNCHANGED <<tin, tri, hist, clipVars>>

NextOrient ==
    \/ orientLoop
    \/ orientReversed

SpecOrient == InitOrient /\ [][NextOrient]_vars

\* ---------------------------------------------------------------- clipper
\* ClipVertexFlags, as the set of bits that are set
CVF_INTERSECT == "CVF_INTERSECT"
CVF_EXIT == "CVF_EXIT"
CVF_PROCESSED == "CVF_PROCESSED"

CFD_FORWARD == "CFD_FORWARD"
CFD_BACKWARD == "CFD_BACKWARD"

\* the inputs: loops over the corners of lattice boxes, in three orders, whole or
\* cut to three corners, and the empty loop
Boxes ==
    {[x0 |-> p, y0 |-> q, x1 |-> r, y1 |-> t] :
        p \in 0..MaxCoord, q \in 0..MaxCoord, r \in 0..MaxCoord, t \in 0..MaxCoord}

ProperBoxes == {bx \in Boxes : bx.x0 < bx.x1 /\ bx.y0 < bx.y1}

BoxCorner(bx, k) ==
    CASE k = 0 -> Vec(bx.x0 * Scale, bx.y0 * Scale)
      [] k = 1 -> Vec(bx.x1 * Scale, bx.y0 * Scale)
      [] k = 2 -> Vec(bx.x1 * Scale, bx.y1 * Scale)
      [] OTHER -> Vec(bx.x0 * Scale, bx.y1 * Scale)

OrderRound == <<0, 1, 2, 3>>
OrderBack == <<2, 1, 0, 3>>
OrderCrossed == <<1, 3, 0, 2>>

BoxLoop(bx, order, n) == [i \in 0..(n - 1) |-> BoxCorner(bx, order[i + 1])]

\* the middles of the sides of a box: bottom, top, right
SideMiddles(bx) ==
    [i \in 0..2 |->
        CASE i = 0 -> Vec(((bx.x0 + bx.x1) \div 2) * Scale, bx.y0 * Scale)
          [] i = 1 -> Vec(((bx.x0 + bx.x1) \div 2) * Scale, bx.y1 * Scale)
          [] OTHER -> Vec(bx.x1 * Scale, ((bx.y0 + bx.y1) \div 2) * Scale)]

EvenBoxes == {bx \in ProperBoxes : (bx.x1 - bx.x0) % 2 = 0 /\ (bx.y1 - bx.y0) % 2 = 0}

LoopsA ==
    {BoxLoop(bx, OrderRound, n) : bx \in ProperBoxes, n \in {3, 4}}
        \cup {SideMiddles(bx) : bx \in EvenBoxes}

LoopsB ==
    {BoxLoop(bx, o, n) : bx \in ProperBoxes, o \in {OrderRound, OrderBack, OrderCrossed},
                         n \in {3, 4}}
        \cup {<<>>}

LoopCount(vs) == Cardinality(DOMAIN vs)

\* room for every crossing: each pair of edges adds at most one node to each ring
Ample(na, nb) == na * nb

\* clipPolyTransformData
clipPolyTransformData(vs, count, maxClipVertices) ==
    [data |-> [i \in 0..(count - 1) |->
                  [pos |-> vs[i],
                   next |-> IF i = count - 1 THEN 0 ELSE i + 1,
                   prev |-> IF i = 0 THEN (count - 1) % IndexMod ELSE i - 1,
                   flags |-> {},
                   neighbor |-> 0,
                   alpha |-> 0]],
     originalSize |-> count,
     size |-> count,
     capacity |-> maxClipVertices]

\* clipPolyCreateVertex without the back link of the old successor
clipPolyCreateVertex_Mutant(ring, at) ==
    LET sz == ring.size
        ref == ring.data[at]
        added == [pos |-> Vec(0, 0), next |-> ref.next, prev |-> at % IndexMod,
                  flags |-> {}, neighbor |-> 0, alpha |-> 0]
        linked == [ring.data EXCEPT ![at].next = sz % IndexMod]
    IN  [ring EXCEPT !.data = [k \in 0..sz |-> IF k = sz THEN added ELSE linked[k]],
                     !.size = sz + 1]

\* clipPolyCreateVertex: the node goes to slot size, after slot at in the list
clipPolyCreateVertex(ring, at) ==
    LET sz == ring.size
        ref == ring.data[at]
        oldNext == ref.next
        added == [pos |-> Vec(0, 0), next |-> oldNext, prev |-> at % IndexMod,
                  flags |-> {}, neighbor |-> 0, alpha |-> 0]
        linked == [ring.data EXCEPT ![at].next = sz % IndexMod,
                                    ![oldNext].prev = sz % IndexMod]
    IN  [ring EXCEPT !.data = [k \in 0..sz |-> IF k = sz THEN added ELSE linked[k]],
                     !.size = sz + 1]

\* clipPolyCreateIntersection
clipPolyCreateIntersection(ring, at, intersection, neighbor, alpha) ==
    LET made == clipPolyCreateVertex(ring, at)
        slot == ring.size
    IN  [made EXCEPT !.data[slot].pos = intersection,
                     !.data[slot].flags = made.data[slot].flags \cup {CVF_INTERSECT},
                     !.data[slot].neighbor = neighbor % IndexMod,
                     !.data[slot].alpha = alpha]

\* clipPolyFindIntersectionIndex: back over the crossings with a larger alpha
RECURSIVE clipPolyFindIntersectionIndex(_, _, _)
clipPolyFindIntersectionIndex(ring, at, alpha) ==
    LET ref == ring.data[at]
    IN  IF CVF_INTERSECT \in ref.flags /\ ref.alpha > alpha
        THEN clipPolyFindIntersectionIndex(ring, ref.prev, alpha)
        ELSE at

\* clipPolyLineIntersectionFactor: *t = num / den, as the two integers
clipPolyLineIntersectionFactor(pa, aDir, pb, bDir) ==
    LET cross == aDir.x * bDir.y - aDir.y * bDir.x
        relx == pa.x - pb.x
        rely == pa.y - pb.y
    IN  [hit |-> cross < CrossEps \/ cross > CrossEps,
         num |-> bDir.x * rely - bDir.y * relx,
         den |-> cross]

\* a quotient with a positive denominator; den = 0 is the float's inf or NaN
Abs(n) == IF n < 0 THEN -n ELSE n
QNum(t) == IF t.den < 0 THEN -t.num ELSE t.num
QDen(t) == Abs(t.den)

\* t >= 0.0f && t <= 1.0f
InUnitRange(t) == QDen(t) # 0 /\ QNum(t) >= 0 /\ QNum(t) <= QDen(t)
\* t <= 0.00001f
NearZero(t) == QNum(t) <= QDen(t) \div AlphaEpsInv
\* t >= 0.99999f
NearOne(t) == QDen(t) - QNum(t) <= QDen(t) \div AlphaEpsInv

\* the first `bits` binary digits of r / c, for 0 <= r < c
RECURSIVE Fraction(_, _, _)
Fraction(r, c, bits) ==
    IF bits = 0 THEN 0
    ELSE IF r >= c - r
         THEN 2 ^ (bits - 1) + Fraction(r - (c - r), c, bits - 1)
         ELSE Fraction(r + r, c, bits - 1)

\* the stored float alpha, in units of 2^-AlphaBits
AlphaOf(t) == Fraction(QNum(t), QDen(t), AlphaBits)

\* n * 0.0001f, to the nearest unit
Pushed(n) == IF n >= 0 THEN (n + Scale \div 2) \div Scale
             ELSE -((-n + Scale \div 2) \div Scale)

\* v->x -= dir.y * 0.0001f; v->y += dir.x * 0.0001f;
PushVertex(v, dir) == Vec(v.x - Pushed(dir.y), v.y + Pushed(dir.x))

\* alpha * d to the nearest unit, in two halves of AlphaBits / 2 bits so that no
\* product overflows
HalfOne == 2 ^ (AlphaBits \div 2)
AlphaTimes(alpha, d) ==
    LET hi == alpha \div HalfOne
        lo == alpha % HalfOne
        m == Abs(d)
        p == (m * hi + (m * lo) \div HalfOne + HalfOne \div 2) \div HalfOne
    IN  IF d < 0 THEN -p ELSE p

\* {aPrev.x + aAlpha * aDir.x, aPrev.y + aAlpha * aDir.y}
PointAt(prev, dir, alpha) ==
    Vec(prev.x + AlphaTimes(alpha, dir.x), prev.y + AlphaTimes(alpha, dir.y))

\* the edge pair the loops of clipPolyFindIntersections stand at
AVertex == a.data[fi.i]
BVertex == b.data[fi.j]
APrev == a.data[fi.aPrevIndex].pos
BPrev == b.data[fi.bPrevIndex].pos
ADir == Vec(AVertex.pos.x - APrev.x, AVertex.pos.y - APrev.y)
BDir == Vec(BVertex.pos.x - BPrev.x, BVertex.pos.y - BPrev.y)
AFactor == clipPolyLineIntersectionFactor(APrev, ADir, BPrev, BDir)
BFactor == clipPolyLineIntersectionFactor(BPrev, BDir, APrev, ADir)

\* The floats of a build round.  On lattice points every product and quotient of
\* lines 447-451 is exact; once a vertex has been pushed off the lattice a factor
\* within RoundingInv^-1 of 0 or of 1 falls on either side of the range test,
\* depending on how the build evaluates the expression.
RoundingInv == 2 ^ (AlphaBits - 4)

OnLattice(v) == v.x % Scale = 0 /\ v.y % Scale = 0

PairExact ==
    /\ OnLattice(APrev) /\ OnLattice(AVertex.pos)
    /\ OnLattice(BPrev) /\ OnLattice(BVertex.pos)

Slack(t) == IF PairExact THEN 0 ELSE QDen(t) \div RoundingInv + 1

\* the range test of line 500 can come out true
MayBeIn(t) ==
    /\ QDen(t) # 0
    /\ QNum(t) >= -Slack(t)
    /\ QNum(t) <= QDen(t) + Slack(t)

\* the range test of line 500 can come out false
MayBeOut(t) ==
    IF PairExact THEN ~InUnitRange(t)
    ELSE ~(QDen(t) # 0 /\ QNum(t) >= Slack(t) /\ QNum(t) <= QDen(t) - Slack(t))

\* lines 498-500
EdgesHit ==
    /\ AFactor.hit /\ BFactor.hit
    /\ MayBeIn(AFactor) /\ MayBeIn(BFactor)

EdgesMiss ==
    \/ ~AFactor.hit \/ ~BFactor.hit
    \/ MayBeOut(AFactor) \/ MayBeOut(BFactor)

\* lines 505-532: which of the four ends the crossing lies on, in the order tested
Degenerate ==
    IF NearZero(AFactor) THEN "aPrev"
    ELSE IF NearOne(AFactor) THEN "aCurrent"
    ELSE IF NearZero(BFactor) THEN "bPrev"
    ELSE IF NearOne(BFactor) THEN "bCurrent"
    ELSE "none"

\* lines 542-543 and the loop headers of lines 484-485: the next edge pair
NextPair ==
    IF fi.j + 1 < b.originalSize
    THEN [fi EXCEPT !.bPrevIndex = fi.j, !.j = fi.j + 1]
    ELSE [i |-> fi.i + 1, j |-> 0, aPrevIndex |-> fi.i, bPrevIndex |-> fi.j]

PairsLeft == ~(fi.j + 1 >= b.originalSize /\ fi.i + 1 >= a.originalSize)

\* TMPO_ASSERT( vertices->size + 1 <= vertices->capacity )
HasRoom(ring) == ring.size + 1 <= ring.capacity

\* the slots either slab has beyond the input: room for every crossing, or
\* MaxSpare slots between the two slabs
Spares(na, nb) ==
    {<<Ample(na, nb), Ample(na, nb)>>} \cup {<<s, MaxSpare - s>> : s \in 0..MaxSpare}

\* the arguments of clipPolyTransformData for both polygons
InitClip(loopsA, loopsB) ==
    /\ pc = "clip_start"
    /\ \E va \in loopsA, vb \in loopsB :
       \E sp \in Spares(LoopCount(va), LoopCount(vb)) :
          cin = [aVertices |-> va, aCount |-> LoopCount(va), aMax |-> LoopCount(va) + sp[1],
                 bVertices |-> vb, bCount |-> LoopCount(vb), bMax |-> LoopCount(vb) + sp[2]]
    /\ a = NoRing /\ b = NoRing /\ fi = NoFi /\ EmitIdle
    /\ tin = NoTin /\ tri = NoTri /\ hist = NoHist /\ ori = NoOri

InitFind == InitClip(LoopsA, LoopsB)

transformBoth ==
    /\ pc = "clip_start"
    /\ a' = clipPolyTransformData(cin.aVertices, cin.aCount, cin.aMax)
    /\ b' = clipPolyTransformData(cin.bVertices, cin.bCount, cin.bMax)
    /\ pc' = "transformed"
    /\ UNCHANGED <<cin, fi, tin, ori, tri, hist, emitVars>>

\* lines 480-485: with no edge pair to test the loops end at once
findEnter ==
    /\ pc = "transformed"
    /\ fi' = [i |-> 0, j |-> 0,
              aPrevIndex |-> a.originalSize - 1, bPrevIndex |-> b.originalSize - 1]
    /\ pc' = IF a.originalSize > 0 /\ b.originalSize > 0 THEN "find" ELSE "found"
    /\ UNCHANGED <<cin, a, b, tin, ori, tri, hist, emitVars>>

\* lines 486-500, 542-543: the edges do not cross
findMiss ==
    /\ pc = "find"
    /\ EdgesMiss
    /\ fi' = NextPair
    /\ pc' = IF PairsLeft THEN "find" ELSE "found"
    /\ UNCHANGED <<cin, a, b, tin, ori, tri, hist, emitVars>>

\* lines 505-532: the crossing lies on an end of an edge: push that vertex, test again
findPush ==
    /\ pc = "find"
    /\ EdgesHit
    /\ Degenerate # "none"
    /\ \/ /\ Degenerate = "aPrev"
          /\ a' = [a EXCEPT !.data[fi.aPrevIndex].pos = PushVertex(APrev, BDir)]
          /\ b' = b
       \/ /\ Degenerate = "aCurrent"
          /\ a' = [a EXCEPT !.data[fi.i].pos = PushVertex(AVertex.pos, BDir)]
          /\ b' = b
       \/ /\ Degenerate = "bPrev"
          /\ b' = [b EXCEPT !.data[fi.bPrevIndex].pos = PushVertex(BPrev, ADir)]
          /\ a' = a
       \/ /\ Degenerate = "bCurrent"
          /\ b' = [b EXCEPT !.data[fi.j].pos = PushVertex(BVertex.pos, ADir)]
          /\ a' = a
    /\ pc' = "find"
    /\ UNCHANGED <<cin, fi, tin, ori, tri, hist, emitVars>>

\* the original vertex that ends the edge slot k lies on
RECURSIVE EdgeEnd(_, _)
EdgeEnd(ring, k) ==
    IF CVF_INTERSECT \in ring.data[k].flags THEN EdgeEnd(ring, ring.data[k].next) ELSE k

\* the crossings stored so far on the edge that ends at original vertex end
CrossingsOn(ring, end) ==
    {k \in ring.originalSize..(ring.size - 1) : EdgeEnd(ring, k) = end}

\* the float that is stored for the factor t: the rounded quotient, and off the
\* lattice, next to an alpha already stored on the edge, a neighbour of it
StoredAlphas(ring, end, t) ==
    IF ~PairExact /\ \E k \in CrossingsOn(ring, end) :
                        Abs(ring.data[k].alpha - AlphaOf(t)) <= 1
    THEN {AlphaOf(t) - 1, AlphaOf(t), AlphaOf(t) + 1}
    ELSE {AlphaOf(t)}

\* lines 534-540: the two new nodes
InsertedA(aAlpha) ==
    clipPolyCreateIntersection(
        a, clipPolyFindIntersectionIndex(a, AVertex.prev, aAlpha),
        PointAt(APrev, ADir, aAlpha), b.size, aAlpha)

\* the node of ring b with the slot of ring b as its neighbor
InsertedB_Mutant(aAlpha, bAlpha) ==
    clipPolyCreateIntersection(
        b, clipPolyFindIntersectionIndex(b, BVertex.prev, bAlpha),
        PointAt(APrev, ADir, aAlpha), b.size, bAlpha)

InsertedB(aAlpha, bAlpha) ==
    clipPolyCreateIntersection(
        b, clipPolyFindIntersectionIndex(b, BVertex.prev, bAlpha),
        PointAt(APrev, ADir, aAlpha), a.size, bAlpha)

\* lines 534-543: a crossing inside both edges is stored in both rings.  Nothing
\* but the assert of clipPolyCreateVertex looks at the capacity: where the assert
\* is compiled out the node is written to slot size, past the slab when it is
\* full, and the program goes on, or ends there if that memory is not its own
findInsert ==
    /\ pc = "find"
    /\ EdgesHit
    /\ Degenerate = "none"
    /\ \E aAlpha \in StoredAlphas(a, fi.i, AFactor), bAlpha \in StoredAlphas(b, fi.j, BFactor) :
          /\ a' = InsertedA(aAlpha)
          /\ b' = InsertedB(aAlpha, bAlpha)
    /\ fi' = NextPair
    /\ pc' \in {IF PairsLeft THEN "find" ELSE "found"}
                 \cup (IF HasRoom(a) /\ HasRoom(b) THEN {} ELSE {"clip_crashed"})
    /\ UNCHANGED <<cin, tin, ori, tri, hist, emitVars>>

\* line 429: where the assert is kept a full slab ends the program, in the call
\* for ring a or, with ring a already changed, in the call for ring b
findAssert ==
    /\ pc = "find"
    /\ EdgesHit
    /\ Degenerate = "none"
    /\ ~(HasRoom(a) /\ HasRoom(b))
    /\ \E aAlpha \in StoredAlphas(a, fi.i, AFactor) :
          a' = IF HasRoom(a) THEN InsertedA(aAlpha) ELSE a
    /\ pc' = "clip_aborted"
    /\ UNCHANGED <<cin, b, fi, tin, ori, tri, hist, emitVars>>

NextFind ==
    \/ transformBoth
    \/ findEnter
    \/ findMiss
    \/ findPush
    \/ findInsert
    \/ findAssert

SpecFind == InitFind /\ [][NextFind]_vars

\* ------------------------------------------------------- clipper, mark and emit
\* clipPolyPointInsidePoly: the crossing number of the ray from p to the right,
\* 1 for inside, as the set of values the call can return.  The test of line 562,
\* p.x < prev.x + alpha * (cur.x - prev.x), is compared multiplied out; off the
\* lattice a ray that meets an edge within the rounding of the floats is counted
\* or not, depending on how the build evaluates the expression.
clipPolyPointInsidePoly(poly, p) ==
    LET count == poly.originalSize
        Cur(i) == poly.data[i].pos
        Prev(i) == poly.data[IF i = 0 THEN count - 1 ELSE i - 1].pos
        Rise(i) == Prev(i).y - Cur(i).y
        Gap(i) == (p.x - Prev(i).x) * Rise(i) - (Prev(i).y - p.y) * (Cur(i).x - Prev(i).x)
        Reached(i) ==
            \/ (p.y <= Prev(i).y /\ p.y > Cur(i).y)
            \/ (p.y > Prev(i).y /\ p.y <= Cur(i).y)
        Counted(i) == Reached(i) /\ IF Rise(i) > 0 THEN Gap(i) < 0 ELSE Gap(i) > 0
        Unsure(i) ==
            /\ Reached(i)
            /\ ~(OnLattice(p) /\ OnLattice(Prev(i)) /\ OnLattice(Cur(i)))
            /\ Abs(Gap(i)) <= (Abs(Rise(i)) * MaxCoord * Scale) \div RoundingInv
        cn == Cardinality({i \in 0..(count - 1) : Counted(i)})
    IN  IF \E i \in 0..(count - 1) : Unsure(i) THEN {0, 1} ELSE {cn % 2}

\* lines 581-590: the do loop, from slot i to the return to slot 0
RECURSIVE MarkFrom(_, _, _)
MarkFrom(ring, i, inside) ==
    LET entry == ring.data[i]
        crossing == CVF_INTERSECT \in entry.flags
        marked == IF crossing /\ inside
                  THEN [ring EXCEPT !.data[i].flags = entry.flags \cup {CVF_EXIT}]
                  ELSE ring
        flipped == IF crossing THEN ~inside ELSE inside
    IN  IF entry.next = 0 THEN marked ELSE MarkFrom(marked, entry.next, flipped)

\* the marking without the flip of line 577
clipPolyMarkEntryExitPointsSingle_Mutant(current, other, dir) ==
    IF current.size > 0
    THEN {MarkFrom(current, current.data[0].next, inside = 1) :
             inside \in clipPolyPointInsidePoly(other, current.data[0].pos)}
    ELSE {current}

\* clipPolyMarkEntryExitPointsSingle
clipPolyMarkEntryExitPointsSingle(current, other, dir) ==
    IF current.size > 0
    THEN {MarkFrom(current, current.data[0].next,
                   IF dir # CFD_FORWARD THEN ~(inside = 1) ELSE inside = 1) :
             inside \in clipPolyPointInsidePoly(other, current.data[0].pos)}
    ELSE {current}

Directions == {CFD_FORWARD, CFD_BACKWARD}

\* clipPolyMarkEntryExitPoints
markEntryExit ==
    /\ pc \in {"found", "marked"}
    /\ Len(mk) < MaxMarks
    /\ \E aDir \in Directions, bDir \in Directions :
          /\ a' \in clipPolyMarkEntryExitPointsSingle(a, b, aDir)
          /\ b' \in clipPolyMarkEntryExitPointsSingle(b, a, bDir)
          /\ mk' = Append(mk, <<aDir, bDir>>)
    /\ pc' = "marked"
    /\ UNCHANGED <<cin, fi, tin, ori, tri, hist, em, out>>

\* the sizes of the caller's two output arrays
Rooms ==
    {<<p, a.size + b.size>> : p \in 0..MaxPolygons}
        \cup {<<MaxPolygons, c>> : c \in {0, MaxPool}}

Ring(name) == IF name = "a" THEN a ELSE b
Other(name) == IF name = "a" THEN "b" ELSE "a"
Current == Ring(em.ring).data[em.i]

\* result.polygons = polyCount; result.vertices = (tmpo_index)put;
Returned(o, polyCount, put) ==
    [o EXCEPT !.result = [polygons |-> polyCount, vertices |-> put % IndexMod]]

\* lines 613-630
emitEnter ==
    /\ pc \in {"found", "marked"}
    /\ \E room \in Rooms :
          em' = [NoEm EXCEPT !.maxPolygons = room[1], !.maxCount = room[2],
                             !.i = IF a.size < 1 THEN 0 ELSE a.data[0].next,
                             !.currentPoly = 1, !.size = room[2]]
    /\ out' = NoOut
    /\ pc' = IF a.size < 1 THEN "emit_done" ELSE "emit_walk"
    /\ UNCHANGED <<cin, a, b, fi, tin, ori, tri, hist, mk>>

\* line 633
Unprocessed(v) == v.flags \cap {CVF_INTERSECT, CVF_PROCESSED} = {CVF_INTERSECT}

\* lines 631-633, 691-692: not the start of a polygon, on to the next vertex
emitSkip ==
    /\ pc = "emit_walk"
    /\ em.i # 0
    /\ ~Unprocessed(Current)
    /\ em' = [em EXCEPT !.i = Current.next]
    /\ UNCHANGED <<pc, cin, a, b, fi, tin, ori, tri, hist, mk, out>>

\* the ring named name with flag f set at slot k
Flagged(name, k, f) == [Ring(name) EXCEPT !.data[k].flags = @ \cup {f}]

\* lines 638-641, 731-734: the size of the polygon written last, once another
\* begins or the call ends
Closed(polys) ==
    IF em.currentPoly < em.polyCount
    THEN [polys EXCEPT ![em.currentPoly].size = em.put - polys[em.currentPoly].vertices,
                       ![em.currentPoly].sized = TRUE]
    ELSE polys

\* polygons[index].vertices = &vertices[put], the size not written yet
Opened(polys, index, put) ==
    [k \in DOMAIN polys \cup {index} |->
        IF k = index
        THEN [vertices |-> put,
              size |-> IF k \in DOMAIN polys THEN polys[k].size ELSE 0,
              sized |-> IF k \in DOMAIN polys THEN polys[k].sized ELSE FALSE]
        ELSE polys[k]]

PolygonRoom == ~(em.polyCount + 1 > em.maxPolygons)

\* lines 633-651: an unprocessed crossing starts a polygon
emitNewPolygon ==
    /\ pc = "emit_walk"
    /\ em.i # 0
    /\ Unprocessed(Current)
    /\ PolygonRoom
    /\ a' = IF em.ring = "a" THEN Flagged("a", em.i, CVF_PROCESSED) ELSE a
    /\ b' = IF em.ring = "b" THEN Flagged("b", em.i, CVF_PROCESSED) ELSE b
    /\ out' = [out EXCEPT !.polygons = Opened(Closed(out.polygons), em.polyCount, em.put)]
    /\ em' = [em EXCEPT !.hasIntersections = TRUE, !.currentPoly = em.polyCount,
                        !.polyCount = em.polyCount + 1, !.start = em.i,
                        !.startRing = em.ring, !.follow = "none"]
    /\ pc' = "emit_trace"
    /\ UNCHANGED <<cin, fi, tin, ori, tri, hist, mk>>

\* lines 633-647: no entry left in polygons; the assert ends the program where
\* it is kept, elsewhere the call returns
emitNoPolygonRoom ==
    /\ pc = "emit_walk"
    /\ em.i # 0
    /\ Unprocessed(Current)
    /\ ~PolygonRoom
    /\ a' = IF em.ring = "a" THEN Flagged("a", em.i, CVF_PROCESSED) ELSE a
    /\ b' = IF em.ring = "b" THEN Flagged("b", em.i, CVF_PROCESSED) ELSE b
    /\ out' = Returned([out EXCEPT !.polygons = Closed(out.polygons)], em.polyCount, em.put)
    /\ em' = [em EXCEPT !.hasIntersections = TRUE]
    /\ pc' \in {"emit_done", "emit_aborted"}
    /\ UNCHANGED <<cin, fi, tin, ori, tri, hist, mk>>

\* lines 653-679: the way the inner loop walks, chosen at the crossing it starts at
Follow ==
    IF em.follow # "none" THEN em.follow
    ELSE IF CVF_EXIT \in Current.flags THEN "prev" ELSE "next"

\* lines 655-656, 668-669
StepIndex == IF Follow = "prev" THEN Current.prev ELSE Current.next
StepNode == Ring(em.ring).data[StepIndex]

\* the test of lines 658 and 671 off by one
PoolRoom_Mutant == ~(em.put > em.size)

PoolRoom == ~(em.put + 1 > em.size)

\* vertices[index] = pos
Written(pool, index, pos) ==
    [k \in DOMAIN pool \cup {index} |-> IF k = index THEN pos ELSE pool[k]]

\* lines 681-686: at a crossing the walk changes to the neighbor in the other ring
Jumped(ring, name) ==
    IF CVF_INTERSECT \in StepNode.flags /\ name = Other(em.ring)
    THEN [ring EXCEPT !.data[StepNode.neighbor].flags = @ \cup {CVF_PROCESSED}]
    ELSE ring

\* line 689 without the comparison of the rings
TraceClosed_Mutant ==
    /\ CVF_INTERSECT \in StepNode.flags
    /\ StepNode.neighbor = em.start

\* line 689
TraceClosed ==
    /\ CVF_INTERSECT \in StepNode.flags
    /\ StepNode.neighbor = em.start
    /\ Other(em.ring) = em.startRing

\* lines 652-692: one vertex of the polygon is written; at a crossing the walk
\* changes rings, and back at the crossing it began at the polygon is complete
emitStep ==
    /\ pc = "emit_trace"
    /\ PoolRoom
    /\ a' = Jumped(IF em.ring = "a" THEN Flagged("a", StepIndex, CVF_PROCESSED) ELSE a, "a")
    /\ b' = Jumped(IF em.ring = "b" THEN Flagged("b", StepIndex, CVF_PROCESSED) ELSE b, "b")
    /\ out' = [out EXCEPT !.vertices = Written(out.vertices, em.put, StepNode.pos)]
    /\ em' = IF CVF_INTERSECT \in StepNode.flags
             THEN [em EXCEPT !.put = em.put + 1,
                             !.ring = Other(em.ring),
                             !.follow = "none",
                             !.i = IF TraceClosed
                                   THEN Ring(Other(em.ring)).data[StepNode.neighbor].next
                                   ELSE StepNode.neighbor]
             ELSE [em EXCEPT !.put = em.put + 1, !.i = StepIndex, !.follow = Follow]
    /\ pc' = IF TraceClosed THEN "emit_walk" ELSE "emit_trace"
    /\ UNCHANGED <<cin, fi, tin, ori, tri, hist, mk>>

\* lines 657-663, 670-676: the pool is used up; the assert ends the program where
\* it is kept, elsewhere the call returns
emitPoolFull ==
    /\ pc = "emit_trace"
    /\ ~PoolRoom
    /\ a' = IF em.ring = "a" THEN Flagged("a", StepIndex, CVF_PROCESSED) ELSE a
    /\ b' = IF em.ring = "b" THEN Flagged("b", StepIndex, CVF_PROCESSED) ELSE b
    /\ out' = Returned(out, em.polyCount, em.put)
    /\ em' = [em EXCEPT !.i = StepIndex, !.follow = Follow]
    /\ pc' \in {"emit_done", "emit_aborted"}
    /\ UNCHANGED <<cin, fi, tin, ori, tri, hist, mk>>

\* lines 695-713: with no crossing met, the polygon that lies inside the other
Wholes ==
    IF em.hasIntersections THEN {"none"}
    ELSE {IF aInB = 1 THEN "a" ELSE IF b.size # 0 /\ bInA = 1 THEN "b" ELSE "none" :
             aInB \in clipPolyPointInsidePoly(b, a.data[0].pos),
             bInA \in IF b.size # 0 THEN clipPolyPointInsidePoly(a, b.data[0].pos) ELSE {0}}

\* lines 706-712, 722-728: the first size vertices of the ring, from vertices[0] on
RECURSIVE Copied(_, _, _)
Copied(pool, ring, n) ==
    IF n = 0 THEN pool
    ELSE Written(Copied(pool, ring, n - 1), n - 1, ring.data[n - 1].pos)

\* lines 695-737 with no polygon to copy: the last size is written and the call returns
emitFinish ==
    /\ pc = "emit_walk"
    /\ em.i = 0
    /\ "none" \in Wholes
    /\ out' = Returned([out EXCEPT !.polygons = Closed(out.polygons)], em.polyCount, em.put)
    /\ pc' = "emit_done"
    /\ UNCHANGED <<cin, a, b, fi, tin, ori, tri, hist, mk, em>>

\* lines 695-737: one polygon lies inside the other and is copied to the pool,
\* as much of it as the pool holds
emitWhole ==
    /\ pc = "emit_walk"
    /\ em.i = 0
    /\ PolygonRoom
    /\ \E whole \in Wholes \ {"none"} :
       LET size == Min(em.size, Ring(whole).originalSize)
           polys == Opened(out.polygons, em.polyCount, em.put)
       IN  /\ em' = [em EXCEPT !.currentPoly = em.polyCount,
                               !.polyCount = em.polyCount + 1,
                               !.size = size, !.put = size]
           /\ out' = Returned(
                        [polygons |-> [polys EXCEPT ![em.polyCount].size =
                                                        size - polys[em.polyCount].vertices,
                                                    ![em.polyCount].sized = TRUE],
                         vertices |-> Copied(out.vertices, Ring(whole), size),
                         result |-> out.result],
                        em.polyCount + 1, size)
    /\ pc' = "emit_done"
    /\ UNCHANGED <<cin, a, b, fi, tin, ori, tri, hist, mk>>

\* lines 698-703, 714-719: no entry left in polygons for that polygon
emitNoRoomForWhole ==
    /\ pc = "emit_walk"
    /\ em.i = 0
    /\ Wholes # {"none"}
    /\ ~PolygonRoom
    /\ out' = Returned(out, em.polyCount, em.put)
    /\ pc' \in {"emit_done", "emit_aborted"}
    /\ UNCHANGED <<cin, a, b, fi, tin, ori, tri, hist, mk, em>>

\* the polygons the whole pipeline is run on: the boxes from the origin to the
\* far side against every box, in both senses of rotation
LoopsPipeA ==
    {BoxLoop(bx, OrderRound, n) :
        bx \in {p \in ProperBoxes : p.x0 = 0 /\ p.y0 = 0 /\ p.x1 = MaxCoord}, n \in {3, 4}}

LoopsPipeB ==
    {BoxLoop(bx, o, n) : bx \in ProperBoxes, o \in {OrderRound, OrderBack}, n \in {3, 4}}
        \cup {<<>>}

Init ==
    /\ InitClip(LoopsPipeA, LoopsPipeB)
    /\ cin.aMax = cin.aCount + Ample(cin.aCount, cin.bCount)
    /\ cin.bMax = cin.bCount + Ample(cin.aCount, cin.bCount)

Next ==
    \/ transformBoth
    \/ findEnter
    \/ findMiss
    \/ findPush
    \/ findInsert
    \/ markEntryExit
    \/ emitEnter
    \/ emitSkip
    \/ emitNewPolygon
    \/ emitNoPolygonRoom
    \/ emitStep
    \/ emitPoolFull
    \/ emitFinish
    \/ emitWhole
    \/ emitNoRoomForWhole

Spec == Init /\ [][Next]_vars

\* ---------------------------------------------- clipper, emit on any flags
\* the slots of the crossings of a ring
IntersectSlots(ring) == {k \in 0..(ring.size - 1) : CVF_INTERSECT \in ring.data[k].flags}

\* The flags are plain fields of the caller's slabs (lines 156-172), and emit
\* reads them as it finds them: EXIT at the crossing a walk starts from (line
\* 653), PROCESSED at the crossings of ring a (line 633).  The rings emit is
\* called on here carry any combination of the two on those nodes.
Reflagged(ring, exits, processed) ==
    [ring EXCEPT !.data =
        [k \in DOMAIN ring.data |->
            [ring.data[k] EXCEPT !.flags =
                (@ \ {CVF_EXIT, CVF_PROCESSED})
                    \cup (IF k \in exits THEN {CVF_EXIT} ELSE {})
                    \cup (IF k \in processed THEN {CVF_PROCESSED} ELSE {})]]]

\* the caller's flags, in place of a call of clipPolyMarkEntryExitPoints
flagsAny ==
    /\ pc = "found"
    /\ \E ea \in SUBSET IntersectSlots(a), pa \in SUBSET IntersectSlots(a),
          eb \in SUBSET IntersectSlots(b) :
          /\ a' = Reflagged(a, ea, pa)
          /\ b' = Reflagged(b, eb, {})
    /\ pc' = "marked"
    /\ UNCHANGED <<cin, fi, tin, ori, tri, hist, emitVars>>

\* one triangle against the triangles of the boxes that stand on the x axis
LoopsEmitA == {BoxLoop([x0 |-> 0, y0 |-> 0, x1 |-> MaxCoord, y1 |-> MaxCoord], OrderRound, 3)}

LoopsEmitB == {BoxLoop(bx, OrderBack, 3) : bx \in {p \in ProperBoxes : p.y0 = 0}}

InitEmit ==
    /\ InitClip(LoopsEmitA, LoopsEmitB)
    /\ cin.aMax = cin.aCount + Ample(cin.aCount, cin.bCount)
    /\ cin.bMax = cin.bCount + Ample(cin.aCount, cin.bCount)

NextEmit ==
    \/ transformBoth
    \/ findEnter
    \/ findMiss
    \/ findPush
    \/ findInsert
    \/ flagsAny
    \/ emitEnter
    \/ emitSkip
    \/ emitNewPolygon
    \/ emitNoPolygonRoom
    \/ emitStep
    \/ emitPoolFull
    \/ emitFinish
    \/ emitWhole
    \/ emitNoRoomForWhole

SpecEmit == InitEmit /\ [][NextEmit]_vars

\* the steps of a call of clipPolyEmitClippedPolygons
EmitSteps ==
    \/ emitSkip
    \/ emitNewPolygon
    \/ emitNoPolygonRoom
    \/ emitStep
    \/ emitPoolFull
    \/ emitFinish
    \/ emitWhole
    \/ emitNoRoomForWhole

\* a call that has begun takes its next step
SpecEmitFair == SpecEmit /\ WF_vars(EmitSteps)

\* ------------------------------------------------------------------ claims
\* the geometry the claims speak of (not code of the library)
Orient(p, q, r) == (q.x - p.x) * (r.y - p.y) - (q.y - p.y) * (r.x - p.x)

Between(p, q, r) ==
    /\ Min(p.x, q.x) <= r.x /\ r.x <= (p.x + q.x) - Min(p.x, q.x)
    /\ Min(p.y, q.y) <= r.y /\ r.y <= (p.y + q.y) - Min(p.y, q.y)

OnSegment(p, q, r) == Orient(p, q, r) = 0 /\ Between(p, q, r)

Sign(n) == IF n > 0 THEN 1 ELSE IF n < 0 THEN -1 ELSE 0

\* the closed segments p1-p2 and p3-p4 share a point
SegmentsTouch(p1, p2, p3, p4) ==
    \/ /\ Sign(Orient(p1, p2, p3)) * Sign(Orient(p1, p2, p4)) < 0
       /\ Sign(Orient(p3, p4, p1)) * Sign(Orient(p3, p4, p2)) < 0
    \/ OnSegment(p1, p2, p3) \/ OnSegment(p1, p2, p4)
    \/ OnSegment(p3, p4, p1) \/ OnSegment(p3, p4, p2)

\* a simple polygon: distinct vertices, edges that meet only at shared endpoints
IsSimplePolygon(vs, n) ==
    /\ n >= 3
    /\ \A i, j \in 0..(n - 1) : i # j => vs[i] # vs[j]
    /\ \A i \in 0..(n - 1) :
          LET s == vs[(i + 1) % n]
              p == vs[i]
              q == vs[(i + 2) % n]
          IN  ~(Orient(s, p, q) = 0
                /\ (p.x - s.x) * (q.x - s.x) + (p.y - s.y) * (q.y - s.y) > 0)
    /\ \A i, j \in 0..(n - 1) :
          (i < j /\ (i + 1) % n # j /\ (j + 1) % n # i)
             => ~SegmentsTouch(vs[i], vs[(i + 1) % n], vs[j], vs[(j + 1) % n])

HasCollinearNeighbours(vs, n) ==
    \E i \in 0..(n - 1) : Orient(vs[i], vs[(i + 1) % n], vs[(i + 2) % n]) = 0

TriContract ==
    /\ IsSimplePolygon(tin.vertices, tin.count)
    /\ tin.clockwise = isPolygonClockwise(tin.vertices, tin.count)
    /\ tin.queryCount >= tin.count
    /\ tin.maxIndices >= 3 * (tin.count - 2)

\* C1: a simple polygon of n >= 3 vertices, passed with its own orientation, a ring
\* of n entries and room for 3*(n-2) indices, comes back with exactly 3*(n-2)
\* indices, collinear consecutive vertices included.
C1_SimplePolygonFullyTriangulated ==
    (pc = "tri_done" /\ TriContract) => tri.indicesCount = 3 * (tin.count - 2)

\* C3: the returned count is a multiple of 3, is the number of entries written to
\* out and never exceeds maxIndices; an ear found with no room left ends the loop
\* with nothing more written, and n < 3 returns 0 with nothing written.
C3_CountMatchesOutput ==
    /\ tri.indicesCount % 3 = 0
    /\ tri.indicesCount = Len(tri.out)
    /\ Len(tri.out) <= tin.maxIndices
    /\ hist.exit = "space" => (pc # "tri_loop" /\ tri.indicesCount + 3 > tin.maxIndices)
    /\ (pc = "tri_done" /\ tin.count < 3) => (tri.indicesCount = 0 /\ tri.out = <<>>)

\* an ear was found after one triangle had been written, and there was no room for it
C3_Witness ==
    pc = "tri_done" /\ hist.exit = "space" /\ tri.indicesCount = 3 /\ tin.maxIndices = 5

TriEnded == pc \in {"tri_done", "tri_aborted"}

\* the counter and the run of rejected tests stay within 2*size + 1 and 2*size + 2
C10_Bound ==
    /\ tri.iterationCount <= 2 * tri.size + 1
    /\ hist.rejects <= 2 * tri.size + 2
    /\ pc = "tri_loop" => hist.rejects = tri.iterationCount

\* an iteration that stays in the loop removes a vertex and resets the counter, or
\* keeps the ring and adds one to the counter; the loop goes on after a rejected
\* test only while the counter had not passed 2*size
C10_Step ==
    (pc = "tri_loop" /\ pc' = "tri_loop")
        => \/ tri'.size = tri.size - 1 /\ tri'.iterationCount = 0
           \/ /\ tri'.size = tri.size
              /\ tri'.iterationCount = tri.iterationCount + 1
              /\ tri.iterationCount <= 2 * tri.size

\* C10: the triangulator ends on every input: each iteration removes a vertex and
\* resets the counter or adds one to it, the loop is left once the counter has
\* passed 2*size, so at most 2*size + 2 tests in a row are rejected.
C10_Terminates == [](C10_Bound) /\ [][C10_Step]_vars /\ <>TriEnded

\* the guard ended a run in which every test was rejected
C10_Witness ==
    /\ pc = "tri_done" /\ hist.exit = "guard"
    /\ hist.rejects = 2 * tri.size + 2
    /\ tin.clockwise # isPolygonClockwise(tin.vertices, tin.count)

\* ------------------------------------------------------- claims, clipper rings
\* C4: clipPolyFindIntersections never raises a ring's size above its capacity:
\* a crossing found with the slab full would have to be left out.
Fits(ring) == ring.size <= ring.capacity

C4_SizeWithinCapacity == Fits(a) /\ Fits(b)

\* the slot reached from slot k by n steps along next
RECURSIVE Walk(_, _, _)
Walk(ring, k, n) == IF n = 0 THEN k ELSE Walk(ring, ring.data[k].next, n - 1)

\* one circular doubly-linked list over the slots [0, size)
RingLinked(ring) ==
    /\ \A k \in 0..(ring.size - 1) :
          /\ ring.data[k].next < ring.size
          /\ ring.data[k].prev < ring.size
          /\ ring.data[ring.data[k].next].prev = k
          /\ ring.data[ring.data[k].prev].next = k
    /\ ring.size > 0 =>
          /\ Walk(ring, 0, ring.size) = 0
          /\ \A n \in 1..(ring.size - 1) : Walk(ring, 0, n) # 0

RingsBuilt == pc \in {"transformed", "find", "found", "clip_aborted"}

\* C6: after clipPolyTransformData and after each insertion within the capacity
\* the next/prev links of either ring form one circular doubly-linked list that
\* visits every slot of [0, size) exactly once.
C6_RingsCircular ==
    (RingsBuilt /\ Fits(a) /\ Fits(b)) => (RingLinked(a) /\ RingLinked(b))

C6_Witness ==
    /\ pc = "found"
    /\ Fits(a) /\ Fits(b)
    /\ a.size >= a.originalSize + 2
    /\ \E k \in IntersectSlots(a) : CVF_INTERSECT \in a.data[a.data[k].next].flags

\* every crossing of the ring this has its twin in the ring that
Twinned(this, that) ==
    \A v \in IntersectSlots(this) :
       LET k == this.data[v].neighbor
       IN  /\ k < that.size
           /\ CVF_INTERSECT \in that.data[k].flags
           /\ that.data[k].neighbor = v
           /\ that.data[k].pos = this.data[v].pos

\* C7: after clipPolyFindIntersections the slots [originalSize, size) of each ring
\* are exactly its INTERSECT nodes, both rings hold the same number of them, and
\* the neighbor links pair them up, each pair at one position.
C7_NeighborsPaired ==
    pc = "found" =>
       /\ IntersectSlots(a) = a.originalSize..(a.size - 1)
       /\ IntersectSlots(b) = b.originalSize..(b.size - 1)
       /\ a.size - a.originalSize = b.size - b.originalSize
       /\ Twinned(a, b)
       /\ Twinned(b, a)

C7_Witness ==
    /\ pc = "found"
    /\ a.size >= a.originalSize + 2
    /\ \E v \in IntersectSlots(a) : a.data[v].neighbor # v

\* the crossings of each edge in the order of the list have ascending alpha
StrictlyAscending(ring) ==
    \A k \in IntersectSlots(ring) :
       CVF_INTERSECT \in ring.data[ring.data[k].next].flags
          => ring.data[k].alpha < ring.data[ring.data[k].next].alpha

AlphaInside(ring) ==
    \A k \in IntersectSlots(ring) : ring.data[k].alpha > 0 /\ ring.data[k].alpha < AlphaOne

\* C8: after clipPolyFindIntersections the crossings of each edge have
\* strictly increasing alpha along the list, and every alpha is inside (0, 1).
C8_AlphaStrictlyAscending ==
    pc = "found" =>
       /\ StrictlyAscending(a) /\ StrictlyAscending(b)
       /\ AlphaInside(a) /\ AlphaInside(b)

\* ---------------------------------------------------------- claims, clipper emit
EmitReturned == pc = "emit_done"

C2_Inside ==
    /\ \A k \in DOMAIN out.vertices : k < em.maxCount
    /\ \A k \in DOMAIN out.polygons : k < em.maxPolygons

C2_Exhausted ==
    \/ pc = "emit_trace" /\ em.put >= em.maxCount
    \/ pc = "emit_walk" /\ em.i # 0 /\ Unprocessed(Current) /\ em.polyCount >= em.maxPolygons
    \/ pc = "emit_walk" /\ em.i = 0 /\ Wholes # {"none"} /\ em.polyCount >= em.maxPolygons

C2_EndsUnwritten ==
    C2_Exhausted =>
        /\ pc' \in {"emit_done", "emit_aborted"}
        /\ out'.vertices = out.vertices
        /\ DOMAIN out'.polygons = DOMAIN out.polygons

\* C2: clipPolyEmitClippedPolygons never writes a vertex at a pool index >=
\* maxCount nor a polygons[] entry at an index >= maxPolygons; with either array
\* used up the call ends (it returns, or stops at the assert where that is kept)
\* and writes no further vertex or entry.
C2_NeverWritesOutside == [](C2_Inside) /\ [][C2_EndsUnwritten]_vars

C2_Witness ==
    /\ EmitReturned
    /\ em.hasIntersections
    /\ em.maxCount = MaxPool
    /\ Cardinality(DOMAIN out.vertices) = MaxPool
    /\ out.result.vertices = MaxPool

\* the sizes of the polygons 0 .. n - 1
RECURSIVE SizeSum(_, _)
SizeSum(polys, n) == IF n = 0 THEN 0 ELSE polys[n - 1].size + SizeSum(polys, n - 1)

\* C5: on every return of clipPolyEmitClippedPolygons every polygon counted in
\* result.polygons has its size written, the polygons are back-to-back spans of
\* the pool from index 0 on, and their sizes sum to result.vertices, the number
\* of pool slots written.
C5_ReturnedPolygonsWhole ==
    EmitReturned =>
       LET n == out.result.polygons
       IN  /\ \A k \in 0..(n - 1) :
                /\ k \in DOMAIN out.polygons
                /\ out.polygons[k].sized
                /\ out.polygons[k].vertices = SizeSum(out.polygons, k)
           /\ (\A k \in 0..(n - 1) : k \in DOMAIN out.polygons)
                 => SizeSum(out.polygons, n) = out.result.vertices
           /\ out.result.vertices = Cardinality(DOMAIN out.vertices)

\* the point p and the polygon vs by the crossing number, on the input as given
InsideInput(vs, n, p) ==
    Cardinality({i \in 0..(n - 1) :
        LET cur == vs[i]
            prev == vs[IF i = 0 THEN n - 1 ELSE i - 1]
            gap == (p.x - prev.x) * (prev.y - cur.y) - (prev.y - p.y) * (cur.x - prev.x)
        IN  /\ \/ (p.y <= prev.y /\ p.y > cur.y)
               \/ (p.y > prev.y /\ p.y <= cur.y)
            /\ IF prev.y - cur.y > 0 THEN gap < 0 ELSE gap > 0}) % 2 = 1

\* two polygons with no edge of one touching an edge of the other, neither of
\* them inside the other
InputsDisjoint ==
    /\ cin.aCount >= 3 /\ cin.bCount >= 3
    /\ \A i \in 0..(cin.aCount - 1), j \in 0..(cin.bCount - 1) :
          ~SegmentsTouch(cin.aVertices[i], cin.aVertices[(i + 1) % cin.aCount],
                         cin.bVertices[j], cin.bVertices[(j + 1) % cin.bCount])
    /\ ~InsideInput(cin.bVertices, cin.bCount, cin.aVertices[0])
    /\ ~InsideInput(cin.aVertices, cin.aCount, cin.bVertices[0])

\* the call returned one polygon, with the n vertices of vs
ReturnedLoop(vs, n) ==
    /\ out.result.polygons = 1
    /\ out.result.vertices = n
    /\ 0 \in DOMAIN out.polygons
    /\ out.polygons[0].sized /\ out.polygons[0].size = n /\ out.polygons[0].vertices = 0
    /\ DOMAIN out.vertices = 0..(n - 1)
    /\ \A k \in 0..(n - 1) : out.vertices[k] = vs[k]

\* C9: for two disjoint polygons the pipeline returns no polygon for
\* (FORWARD, FORWARD) and for (BACKWARD, BACKWARD), polygon A for
\* (BACKWARD, FORWARD) and polygon B for (FORWARD, BACKWARD).
C9_DisjointTable ==
    (/\ EmitReturned
     /\ InputsDisjoint
     /\ Len(mk) = 1
     /\ em.maxPolygons = MaxPolygons /\ em.maxCount = a.size + b.size)
        => CASE mk[1] = <<CFD_BACKWARD, CFD_FORWARD>> ->
                    ReturnedLoop(cin.aVertices, cin.aCount)
             [] mk[1] = <<CFD_FORWARD, CFD_BACKWARD>> ->
                    ReturnedLoop(cin.bVertices, cin.bCount)
             [] OTHER -> out.result.polygons = 0

\* ------------------------------------------------------ claims, emit ends
EmitRunning == pc \in {"emit_walk", "emit_trace"}
EmitEnded == pc \in {"emit_done", "emit_aborted"}

\* the tracing loop is left at the crossing it began at, on the ring it began
\* on, or with the pool used up
C11_TraceEnds ==
    (pc = "emit_trace" /\ pc' # "emit_trace") =>
        \/ /\ pc' = "emit_walk"
           /\ em'.ring = em.startRing
           /\ em'.i = Ring(em.startRing).data[em.start].next
        \/ /\ EmitEnded'
           /\ em.put + 1 > em.size

\* the walk over ring a goes on along ring a, and ends back at slot 0 or with
\* no entry left in polygons
C11_WalkEnds ==
    (pc = "emit_walk") =>
        /\ em.ring = "a"
        /\ EmitEnded' => (em.i = 0 \/ em.polyCount + 1 > em.maxPolygons)

\* C11: clipPolyEmitClippedPolygons terminates on rings that are circular lists
\* with paired neighbors, whatever EXIT and PROCESSED flags their nodes carry and
\* whatever maxPolygons and maxCount are: a tracing loop ends back at its start
\* node on its start ring or with the pool used up, and the walk over ring a
\* ends back at slot 0.
C11_EmitTerminates ==
    /\ [][C11_TraceEnds /\ C11_WalkEnds]_vars
    /\ (EmitRunning ~> EmitEnded)

\* fewer than every other crossing of ring a carries EXIT, a marking no call of
\* clipPolyMarkEntryExitPoints leaves on a fresh ring, and a tracing loop, never
\* back at its start, has used up a pool with room for every node of both rings
C11_Witness ==
    /\ EmitEnded
    /\ 2 * Cardinality({k \in IntersectSlots(a) : CVF_EXIT \in a.data[k].flags}) + 1
          < Cardinality(IntersectSlots(a))
    /\ em.maxCount = a.size + b.size
    /\ em.put = em.maxCount
    /\ em.follow # "none"

\* ------------------------------------------------------ claims, orientation
\* twice the signed area of the loop the calls were made on
OrientSum == ShoelaceFrom(ori.vertices, ori.count, 0, ori.count - 1)

OrientDone == pc = "ori_done"

RECURSIVE CrossingsFrom(_, _)
CrossingsFrom(ring, i) ==
    IF i = 0 THEN <<>>
    ELSE (IF CVF_INTERSECT \in ring.data[i].flags THEN <<i>> ELSE <<>>)
            \o CrossingsFrom(ring, ring.data[i].next)

CrossingsInOrder(ring) ==
    IF ring.size > 0 THEN CrossingsFrom(ring, ring.data[0].next) ELSE <<>>

HasExit(ring, k) == CVF_EXIT \in ring.data[k].flags

\* ring r was marked with direction d against ring o
MarkedRight(r, o, d) ==
    LET cs == CrossingsInOrder(r)
    IN  /\ \A j \in 1..(Len(cs) - 1) : HasExit(r, cs[j]) # HasExit(r, cs[j + 1])
        /\ cs # <<>> =>
              \E inside \in clipPolyPointInsidePoly(o, r.data[0].pos) :
                 HasExit(r, cs[1]) <=> ((inside = 1) # (d = CFD_BACKWARD))
        /\ \A k \in 0..(r.size - 1) :
              CVF_INTERSECT \notin r.data[k].flags => ~HasExit(r, k)

\* the one call of clipPolyMarkEntryExitPoints, on rings fresh from
\* clipPolyFindIntersections, has returned
MarkedOnce == pc = "marked" /\ Len(mk) = 1

\* C13: after clipPolyMarkEntryExitPoints on a ring R with no EXIT flag set
\* before, with direction d against ring O, the crossings met along next from
\* R[0].next back to slot 0 carry EXIT alternately, the first of them iff
\* (R[0].pos is inside O) differs from (d = BACKWARD), and no original node
\* carries EXIT.
C13_MarksAlternate ==
    MarkedOnce => (MarkedRight(a, b, mk[1][1]) /\ MarkedRight(b, a, mk[1][2]))

\* ring a, marked BACKWARD from a first vertex outside b, has four crossings:
\* the first carries EXIT, the last does not
C13_Witness ==
    /\ MarkedOnce
    /\ mk[1][1] = CFD_BACKWARD
    /\ Len(CrossingsInOrder(a)) >= 4
    /\ clipPolyPointInsidePoly(b, a.data[0].pos) = {0}
    /\ HasExit(a, CrossingsInOrder(a)[1])
    /\ ~HasExit(a, CrossingsInOrder(a)[4])

\* ------------------------------------------------ claims, the rolling triple
\* the step removes an ear
EarRemoved == pc = "tri_loop" /\ tri'.size = tri.size - 1

\* a, b, c are consecutive positions of a ring of n slots, c the last of them
TripleEndsAt(t, n, last) ==
    /\ t.c = last
    /\ t.b = (last + n - 1) % n
    /\ t.a = (last + n - 2) % n

\* in an iteration a, b, c are distinct consecutive positions below the size
C14_Consecutive ==
    pc = "tri_loop" =>
        /\ tri.size > 2
        /\ tri.c < tri.size
        /\ TripleEndsAt(tri, tri.size, tri.c)

\* C14, as stated: after the removal of position b the triple is rewound so
\* that c is the removed position b, which now holds the old c, and a, b are the
\* two positions before it; in every iteration a, b, c are distinct consecutive
\* positions below the size of the ring.
C14_RewindsToRemoved ==
    /\ [][(EarRemoved /\ pc' = "tri_loop") =>
             /\ TripleEndsAt(tri', tri'.size, tri.b)
             /\ tri'.queryList[tri'.c] = tri.queryList[tri.c]]_vars
    /\ [](C14_Consecutive)

\* C14, amended: after the removal of position b, which then holds the old c
\* unless b was the last position, the triple is rewound so that c is the old
\* position a, the one before the removed position (less the new size when a
\* was the last position), and a, b are the two positions before it; in every
\* iteration a, b, c are distinct consecutive positions below the size of the
\* ring.
C14_RewindsToBefore ==
    /\ [][EarRemoved =>
             /\ TripleEndsAt(tri', tri'.size, tri.a % tri'.size)
             /\ tri'.current = tri'.c
             /\ tri.b < tri'.size => tri'.queryList[tri.b] = tri.queryList[tri.c]]_vars
    /\ [](C14_Consecutive)

\* after one rejected test the ear at positions 1, 2, 3 of four was removed:
\* c is position 1, and a, b wrap to the end of the ring and to 0
C14_Witness ==
    /\ pc = "tri_loop"
    /\ tri.indicesCount = 3
    /\ hist.rejects = 0
    /\ hist.iters = 2
    /\ tri.size = 3
    /\ tri.a = 2 /\ tri.b = 0 /\ tri.c = 1

====
